---- MODULE Spec2Model ----
(***************************************************************************)
(* Round-robin scheduler of scheduler/src/schedulers/round_robinn.rs as a  *)
(* state machine.  The state is the RoundRobinScheduler struct; one action *)
(* models one call of the Scheduler trait (next, or stop with one reason). *)
(* The driver alternates the calls: stop is only called for the process    *)
(* the last next granted with Run, and reports a remaining that does not   *)
(* exceed the granted timeslice.  The very first process is created by a   *)
(* stop(Fork) on the empty engine.                                         *)
(*                                                                         *)
(* usize arithmetic: a build with overflow checks (debug) panics on an     *)
(* overflowing + or -, a build without them (release) wraps.  Both builds  *)
(* are modelled (overflow_checks); the word is UsizeBits wide.             *)
(***************************************************************************)
EXTENDS Integers, Sequences, FiniteSets, TLC

\* ---- bounds of the model --------------------------------------------------
MaxProcs == 3          \* Forks are serviced while nr_processes < MaxProcs
MaxStops == 5          \* the driver calls stop at most MaxStops times
MaxSleep == 2          \* Sleep(amount_of_time) with amount_of_time in 1..MaxSleep
UsizeBits == 16        \* width of usize in the model

\* the inputs of new(timeslice, minimum_remaining_timeslice) and of Fork(priority)
Timeslices == {1, 2}
MinimumRemainings == {0, 1, 2}
Priorities == {0}

VARIABLES
    processes,                    \* Vec<RoundRobinProcess>
    ready_queue,                  \* VecDeque<Pid>
    sleep_queue,                  \* VecDeque<Pid>
    timeslice,                    \* NonZeroUsize
    minimum_remaining_timeslice,  \* usize
    nr_processes,                 \* usize
    time,                         \* usize
    overflow_checks,              \* the build: TRUE panics on overflow, FALSE wraps
    panicked,                     \* "none", or why the program aborted
    stops,                        \* the number of stop calls the driver has made
    call,                         \* the last call made by the driver
    ret                           \* what that call returned

vars == <<processes, ready_queue, sleep_queue, timeslice,
          minimum_remaining_timeslice, nr_processes, time,
          overflow_checks, panicked, stops, call, ret>>

config == <<timeslice, minimum_remaining_timeslice, overflow_checks>>

\* ---- usize ----------------------------------------------------------------
UsizeMod == 2 ^ UsizeBits
Wrap(x) == x % UsizeMod
AddPanics(a, b) == overflow_checks /\ a + b >= UsizeMod
SubPanics(a, b) == overflow_checks /\ a < b

\* ---- values exchanged with the driver --------------------------------------
Decision(kind, pid, amount) == [kind |-> kind, pid |-> pid, amount |-> amount]
Run(pid, amount) == Decision("Run", pid, amount)
Sleep(amount) == Decision("Sleep", 0, amount)
Done == Decision("Done", 0, 0)
Panic == Decision("Panic", 0, 0)
Success == Decision("Success", 0, 0)
PidResult(pid) == Decision("Pid", pid, 0)
NoReturn == Decision("None", 0, 0)

Call(op, reason, remaining, arg) ==
    [op |-> op, reason |-> reason, remaining |-> remaining, arg |-> arg]

\* ---- process records -------------------------------------------------------
\* a record created without its quantum
RoundRobinProcess_new_no_quantum(pid, state, priority, timings, remaining) ==
    [pid |-> pid, state |-> state, priority |-> priority, timings |-> timings,
     remaining |-> 0, sleep_time |-> 0, total_time |-> remaining]

RoundRobinProcess_new(pid, state, priority, timings, remaining) ==
    [pid |-> pid, state |-> state, priority |-> priority, timings |-> timings,
     remaining |-> remaining, sleep_time |-> 0, total_time |-> remaining]

set_state(p, new_state) == [p EXCEPT !.state = new_state]

\* processes.iter().position(|p| p.pid() == pid): the first index, 0 for None
Position(procs, pid) ==
    IF \E i \in 1..Len(procs) : procs[i].pid = pid
    THEN CHOOSE i \in 1..Len(procs) :
            /\ procs[i].pid = pid
            /\ \A j \in 1..(i - 1) : procs[j].pid # pid
    ELSE 0

push_front(q, pid) == <<pid>> \o q
push_back(q, pid) == Append(q, pid)

keep_front(q) == q
clear(q) == <<>>
pop_front(q) == Tail(q)

\* processes.retain(|p| p.pid() != pid)
retain_only(procs, pid) == SelectSeq(procs, LAMBDA p : p.pid = pid)
retain(procs, pid) == SelectSeq(procs, LAMBDA p : p.pid # pid)

\* ---- the outcome of a handler ----------------------------------------------
Outcome(procs, rq, sq, nr, t, r, why) ==
    [procs |-> procs, rq |-> rq, sq |-> sq, nr |-> nr, time |-> t, ret |-> r,
     panic |-> why]

Aborted(why) ==
    Outcome(processes, ready_queue, sleep_queue, nr_processes, time, NoReturn, why)

Apply(o) ==
    /\ processes' = o.procs
    /\ ready_queue' = o.rq
    /\ sleep_queue' = o.sq
    /\ nr_processes' = o.nr
    /\ time' = o.time
    /\ ret' = o.ret
    /\ panicked' = o.panic
    /\ UNCHANGED config

\* ---- next ------------------------------------------------------------------
\* lines 85-95: occurrences of Pid 1 in the two queues
CountInit(q) == Cardinality({i \in 1..Len(q) : q[i] = 1})

\* Pid 1 looked for in the ready queue only
InitGone_ready_only ==
    /\ Len(ready_queue) > 0
    /\ CountInit(ready_queue) = 0

\* Pid 1 looked for even when the ready queue is empty
InitGone_when_empty ==
    CountInit(ready_queue) + CountInit(sleep_queue) = 0

\* lines 84-102
InitGone ==
    /\ Len(ready_queue) > 0
    /\ CountInit(ready_queue) + CountInit(sleep_queue) = 0

\* the delay folded into timings.0 but not cleared
WakeUp_keeps_delay(p) ==
    IF p.sleep_time > 0
    THEN [p EXCEPT !.remaining = p.total_time,
                   !.timings[1] = Wrap(@ + p.sleep_time)]
    ELSE p

\* the delay folded and cleared but the quantum not restored
WakeUp_no_refill(p) ==
    IF p.sleep_time > 0
    THEN [p EXCEPT !.timings[1] = Wrap(@ + p.sleep_time),
                   !.sleep_time = 0]
    ELSE p

\* lines 110-114: a process back from the sleep queue
WakeUp(p) ==
    IF p.sleep_time > 0
    THEN [p EXCEPT !.remaining = p.total_time,
                   !.timings[1] = Wrap(@ + p.sleep_time),
                   !.sleep_time = 0]
    ELSE p

\* lines 115-116: a non-zero remaining that reaches the threshold
ExceedsThreshold(remaining) ==
    remaining # 0 /\ remaining > minimum_remaining_timeslice
MeetsThreshold(remaining) ==
    remaining # 0 /\ remaining >= minimum_remaining_timeslice

\* lines 127-143: the candidate after the rotation, granted without a threshold
SecondCandidate(procs, rq) ==
    IF rq = <<>>
    THEN Outcome(procs, rq, sleep_queue, nr_processes, time, Done, "none")
    ELSE LET pid == Head(rq)
             idx == Position(procs, pid)
         IN  IF idx = 0 THEN Aborted("not_found")
             ELSE LET granted == IF procs[idx].remaining # 0
                                 THEN procs[idx].remaining ELSE timeslice
                  IN  Outcome([procs EXCEPT ![idx] = set_state(@, "Running")],
                              rq, sleep_queue, nr_processes, time,
                              Run(pid, granted), "none")

\* lines 103-143
FirstCandidate ==
    LET pid == Head(ready_queue)
        idx == Position(processes, pid)
    IN  IF idx = 0 THEN Aborted("not_found")
        ELSE IF /\ processes[idx].sleep_time > 0
                /\ AddPanics(processes[idx].timings[1], processes[idx].sleep_time)
        THEN Aborted("overflow")
        ELSE LET p == WakeUp(processes[idx])
                 procs == [processes EXCEPT ![idx] = p]
             IN  IF MeetsThreshold(p.remaining)
                 THEN Outcome([procs EXCEPT ![idx] = set_state(@, "Running")],
                              ready_queue, sleep_queue, nr_processes, time,
                              Run(pid, p.remaining), "none")
                 ELSE SecondCandidate(
                          [procs EXCEPT ![idx] = set_state(@, "Ready")],
                          push_back(pop_front(ready_queue), pid))

\* the sleep queue ignored: Done although a sleeper is left
WakeSleeper_ignored ==
    Outcome(processes, ready_queue, sleep_queue, nr_processes, time, Done, "none")

\* the sleeper with the smallest delay woken instead of the earliest enqueued
WakeSleeper_shortest ==
    LET i == CHOOSE i \in 1..Len(sleep_queue) :
                 \A j \in 1..Len(sleep_queue) :
                     LET a == processes[Position(processes, sleep_queue[i])].sleep_time
                         b == processes[Position(processes, sleep_queue[j])].sleep_time
                     IN  a < b \/ (a = b /\ i <= j)
        pid == sleep_queue[i]
    IN  Outcome(processes, push_back(ready_queue, pid),
                SelectSeq(sleep_queue, LAMBDA q : q # pid),
                nr_processes, time,
                Sleep(processes[Position(processes, pid)].sleep_time), "none")

\* lines 144-152
WakeSleeper ==
    LET pid == Head(sleep_queue)
        idx == Position(processes, pid)
    IN  IF idx = 0 THEN Aborted("not_found")
        ELSE IF processes[idx].sleep_time = 0 THEN Aborted("unwrap")
        ELSE Outcome(processes, push_back(ready_queue, pid), pop_front(sleep_queue),
                     nr_processes, time, Sleep(processes[idx].sleep_time), "none")

\* lines 83-156
next_outcome ==
    IF InitGone
    THEN Outcome([i \in 1..Len(processes) |-> set_state(processes[i], "Ready")],
                 ready_queue, sleep_queue, nr_processes, time, Panic, "none")
    ELSE IF ready_queue # <<>> THEN FirstCandidate
    ELSE IF sleep_queue # <<>> THEN WakeSleeper
    ELSE Outcome(processes, ready_queue, sleep_queue, nr_processes, time, Done, "none")

\* ---- the driver's protocol -------------------------------------------------
Running == panicked = "none" /\ ret.kind = "Run"
Idle == panicked = "none" /\ ret.kind # "Run"
WithinBounds == stops < MaxStops

\* ---- stop -------------------------------------------------------------------
RECURSIVE WaitLoop(_, _, _, _)
\* lines 174-182, 210-218 (from = 0: each process is charged its own remaining
\* minus the reported one), lines 248-256 and 280-288 (from = process_index:
\* each is charged the stopped process's remaining minus `remaining`)
WaitLoop(procs, pids, from, remaining) ==
    IF pids = <<>> THEN [procs |-> procs, panic |-> "none"]
    ELSE LET k == Position(procs, Head(pids))
         IN  IF k = 0 THEN [procs |-> procs, panic |-> "not_found"]
             ELSE LET minuend == procs[IF from = 0 THEN k ELSE from].remaining
                      d == Wrap(minuend - remaining)
                  IN  IF SubPanics(minuend, remaining) \/ AddPanics(procs[k].timings[1], d)
                      THEN [procs |-> procs, panic |-> "overflow"]
                      ELSE WaitLoop([procs EXCEPT ![k].timings[1] = Wrap(@ + d)],
                                    Tail(pids), from, remaining)

\* the elapsed time kept out of the stopped process's own timings.0
Charge_others_only(remaining) ==
    IF ready_queue = <<>>
    THEN [procs |-> processes, time |-> time, panic |-> "none"]
    ELSE LET pid == Head(ready_queue)
             idx == Position(processes, pid)
         IN  IF idx = 0
             THEN [procs |-> processes, time |-> time, panic |-> "not_found"]
             ELSE LET r == processes[idx].remaining
                      elapsed == Wrap(r - remaining)
                      t == processes[idx].timings
                  IN  IF \/ SubPanics(r, remaining)
                         \/ AddPanics(time, elapsed)
                         \/ AddPanics(t[2], 1)
                         \/ SubPanics(elapsed, 1)
                         \/ AddPanics(t[3], Wrap(elapsed - 1))
                      THEN [procs |-> processes, time |-> time, panic |-> "overflow"]
                      ELSE LET charged ==
                                   [processes EXCEPT ![idx].timings =
                                       <<t[1], Wrap(t[2] + 1),
                                         Wrap(t[3] + Wrap(elapsed - 1))>>]
                               others == WaitLoop(charged, Tail(ready_queue), 0, remaining)
                           IN  [procs |-> [others.procs EXCEPT ![idx].remaining = remaining],
                                time |-> Wrap(time + elapsed),
                                panic |-> others.panic]

\* lines 163-184 (Fork) and 199-220 (Sleep): the accounting of the elapsed time
Charge(remaining) ==
    IF ready_queue = <<>>
    THEN [procs |-> processes, time |-> time, panic |-> "none"]
    ELSE LET pid == Head(ready_queue)
             idx == Position(processes, pid)
         IN  IF idx = 0
             THEN [procs |-> processes, time |-> time, panic |-> "not_found"]
             ELSE LET r == processes[idx].remaining
                      elapsed == Wrap(r - remaining)
                      t == processes[idx].timings
                  IN  IF \/ SubPanics(r, remaining)
                         \/ AddPanics(time, elapsed)
                         \/ AddPanics(t[1], elapsed)
                         \/ AddPanics(t[2], 1)
                         \/ SubPanics(elapsed, 1)
                         \/ AddPanics(t[3], Wrap(elapsed - 1))
                      THEN [procs |-> processes, time |-> time, panic |-> "overflow"]
                      ELSE LET charged ==
                                   [processes EXCEPT ![idx].timings =
                                       <<Wrap(t[1] + elapsed), Wrap(t[2] + 1),
                                         Wrap(t[3] + Wrap(elapsed - 1))>>]
                               others == WaitLoop(charged, Tail(ready_queue), 0, remaining)
                           IN  [procs |-> [others.procs EXCEPT ![idx].remaining = remaining],
                                time |-> Wrap(time + elapsed),
                                panic |-> others.panic]

\* lines 162-197
Fork_outcome(process_priority, remaining) ==
    LET c == Charge(remaining)
        new_pid == nr_processes + 1
        new_process == RoundRobinProcess_new(new_pid, "Ready", process_priority,
                                             <<0, 0, 0>>, timeslice)
    IN  IF c.panic # "none" THEN Aborted(c.panic)
        ELSE Outcome(Append(c.procs, new_process), push_back(ready_queue, new_pid),
                     sleep_queue, nr_processes + 1, c.time, PidResult(new_pid), "none")

\* lines 198-234
Sleep_outcome(amount_of_time, remaining) ==
    LET c == Charge(remaining)
    IN  IF c.panic # "none" THEN Aborted(c.panic)
        ELSE IF ready_queue = <<>>
        THEN Outcome(c.procs, ready_queue, sleep_queue, nr_processes, c.time,
                     Success, "none")
        ELSE LET pid == Head(ready_queue)
                 idx == Position(c.procs, pid)
             IN  IF idx = 0 THEN Aborted("not_found")
                 ELSE Outcome([c.procs EXCEPT ![idx].sleep_time = amount_of_time,
                                              ![idx].state = "Waiting"],
                              pop_front(ready_queue), push_back(sleep_queue, pid),
                              nr_processes, c.time, Success, "none")

\* lines 235-240: Wait and Signal change nothing
Wait_outcome(remaining) ==
    Outcome(processes, ready_queue, sleep_queue, nr_processes, time, Success, "none")

\* lines 241-261
Exit_outcome(remaining) ==
    IF ready_queue = <<>>
    THEN Outcome(processes, ready_queue, sleep_queue, nr_processes, time, Success, "none")
    ELSE LET pid == Head(ready_queue)
             rest == pop_front(ready_queue)
             idx == Position(processes, pid)
         IN  IF idx = 0 THEN Aborted("not_found")
             ELSE LET r == processes[idx].remaining
                      others == WaitLoop(processes, rest, idx, remaining)
                  IN  IF others.panic # "none" THEN Aborted(others.panic)
                      ELSE IF SubPanics(r, remaining) \/ AddPanics(time, Wrap(r - remaining))
                      THEN Aborted("overflow")
                      ELSE Outcome(retain(others.procs, pid),
                                   rest, sleep_queue, nr_processes,
                                   Wrap(time + Wrap(r - remaining)), Success, "none")

\* lines 264-292
Expired_outcome ==
    IF ready_queue = <<>>
    THEN Outcome(processes, ready_queue, sleep_queue, nr_processes, time, Success, "none")
    ELSE LET pid == Head(ready_queue)
             rest == pop_front(ready_queue)
             idx == Position(processes, pid)
         IN  IF idx = 0 THEN Aborted("unwrap")
             ELSE LET r == processes[idx].remaining
                      t == processes[idx].timings
                  IN  IF AddPanics(time, r) \/ AddPanics(t[3], r) \/ AddPanics(t[1], r)
                      THEN Aborted("overflow")
                      ELSE LET charged ==
                                   [processes EXCEPT
                                       ![idx].state = "Ready",
                                       ![idx].timings =
                                           <<Wrap(t[1] + r), t[2], Wrap(t[3] + r)>>]
                               others == WaitLoop(charged, rest, idx, 0)
                           IN  IF others.panic # "none" THEN Aborted(others.panic)
                               ELSE Outcome([others.procs EXCEPT ![idx].remaining = timeslice],
                                            push_back(rest, pid), sleep_queue,
                                            nr_processes, Wrap(time + r), Success, "none")

\* ---- the actions: one per call --------------------------------------------
next ==
    /\ Idle
    /\ call' = Call("next", "-", 0, 0)
    /\ UNCHANGED stops
    /\ Apply(next_outcome)

\* the driver creates the first process with a Fork on the empty engine
stop_Fork_first ==
    /\ Idle
    /\ WithinBounds
    /\ nr_processes = 0
    /\ \E process_priority \in Priorities :
          /\ stops' = stops + 1
          /\ call' = Call("stop", "Fork", 0, process_priority)
          /\ Apply(Fork_outcome(process_priority, 0))

stop_Fork ==
    /\ Running
    /\ WithinBounds
    /\ nr_processes < MaxProcs
    /\ \E process_priority \in Priorities, remaining \in 0..ret.amount :
          /\ stops' = stops + 1
          /\ call' = Call("stop", "Fork", remaining, process_priority)
          /\ Apply(Fork_outcome(process_priority, remaining))

stop_Sleep ==
    /\ Running
    /\ WithinBounds
    /\ \E amount_of_time \in 1..MaxSleep, remaining \in 0..ret.amount :
          /\ stops' = stops + 1
          /\ call' = Call("stop", "Sleep", remaining, amount_of_time)
          /\ Apply(Sleep_outcome(amount_of_time, remaining))

stop_Wait ==
    /\ Running
    /\ WithinBounds
    /\ \E remaining \in 0..ret.amount :
          /\ stops' = stops + 1
          /\ call' = Call("stop", "Wait", remaining, 0)
          /\ Apply(Wait_outcome(remaining))

stop_Signal ==
    /\ Running
    /\ WithinBounds
    /\ \E remaining \in 0..ret.amount :
          /\ stops' = stops + 1
          /\ call' = Call("stop", "Signal", remaining, 0)
          /\ Apply(Wait_outcome(remaining))

stop_Exit ==
    /\ Running
    /\ WithinBounds
    /\ \E remaining \in 0..ret.amount :
          /\ stops' = stops + 1
          /\ call' = Call("stop", "Exit", remaining, 0)
          /\ Apply(Exit_outcome(remaining))

stop_Expired ==
    /\ Running
    /\ WithinBounds
    /\ stops' = stops + 1
    /\ call' = Call("stop", "Expired", 0, 0)
    /\ Apply(Expired_outcome)

Init ==
    /\ processes = <<>>
    /\ ready_queue = <<>>
    /\ sleep_queue = <<>>
    /\ timeslice \in Timeslices
    /\ minimum_remaining_timeslice \in MinimumRemainings
    /\ nr_processes = 0
    /\ time = 0
    /\ overflow_checks \in BOOLEAN
    /\ panicked = "none"
    /\ stops = 0
    /\ call = Call("new", "-", 0, 0)
    /\ ret = NoReturn

Next ==
    \/ next
    \/ stop_Fork_first
    \/ stop_Fork
    \/ stop_Sleep
    \/ stop_Wait
    \/ stop_Signal
    \/ stop_Exit
    \/ stop_Expired

Spec == Init /\ [][Next]_vars

\* ---- every process exits when run -----------------------------------------
\* once the driver has made its MaxStops other stops, each Run is answered by
\* an Exit (lines 241-261)
stop_Exit_final ==
    /\ Running
    /\ ~WithinBounds
    /\ \E remaining \in 0..ret.amount :
          /\ call' = Call("stop", "Exit", remaining, 0)
          /\ UNCHANGED stops
          /\ Apply(Exit_outcome(remaining))

NextLive ==
    \/ Next
    \/ stop_Exit_final

\* the driver keeps calling as long as a call is possible
SpecLive == Init /\ [][NextLive]_vars /\ WF_vars(NextLive)

\* ---- vocabulary of the properties ------------------------------------------
\* the step is a call of stop with this reason / a call of next
Stopped(reason) == stops' = stops + 1 /\ call'.reason = reason
Called_next == call'.op = "next" /\ stops' = stops

Elems(q) == {q[i] : i \in 1..Len(q)}
Occurrences(q, pid) == Cardinality({i \in 1..Len(q) : q[i] = pid})
Records(procs, pid) == Cardinality({i \in 1..Len(procs) : procs[i].pid = pid})
ProcessOf(procs, pid) == procs[Position(procs, pid)]

RECURSIVE SumWaitingDelta(_, _, _)
\* the sum, over the Pids of `pids`, of the increase of timings.0 from `before`
\* to `after`
SumWaitingDelta(pids, before, after) ==
    IF pids = <<>> THEN 0
    ELSE Wrap(ProcessOf(after, Head(pids)).timings[1]
                - ProcessOf(before, Head(pids)).timings[1])
         + SumWaitingDelta(Tail(pids), before, after)

\* C3: conservation. A stop(Expired) or stop(Syscall{_, remaining}) of the
\* running process, whose recorded remaining is r, advances the global time by
\* elapsed = r - remaining (r for Expired), and the waiting times of the other
\* ready processes by elapsed * (ready_queue_length - 1) in total
C3_Conservation ==
    [][\A reason \in {"Expired", "Fork", "Sleep", "Wait", "Signal", "Exit"} :
          (/\ Running
           /\ Stopped(reason)
           /\ panicked' = "none"
           /\ call'.remaining <= ProcessOf(processes, Head(ready_queue)).remaining)
          => LET r == ProcessOf(processes, Head(ready_queue)).remaining
                 elapsed == IF reason = "Expired" THEN r ELSE r - call'.remaining
             IN  /\ time' = Wrap(time + elapsed)
                 /\ SumWaitingDelta(Tail(ready_queue), processes, processes')
                        = elapsed * (Len(ready_queue) - 1)]_vars

C5_ExpiredRotates ==
    [][(Running /\ Stopped("Expired") /\ panicked' = "none")
       => LET pid == Head(ready_queue)
          IN  /\ ready_queue' = Append(Tail(ready_queue), pid)
              /\ ProcessOf(processes', pid).remaining = timeslice
              /\ ProcessOf(processes', pid).state = "Ready"]_vars

\* a process with a partial remaining has expired in front of two others
C5_Witness ==
    /\ call.op = "stop" /\ call.reason = "Expired" /\ panicked = "none"
    /\ Len(ready_queue) = 3
    /\ ProcessOf(processes, ready_queue[3]).remaining = timeslice
    /\ ProcessOf(processes, ready_queue[3]).timings[3] < timeslice
    /\ ProcessOf(processes, ready_queue[3]).timings[2] > 0

\* every ready process holds a full quantum that reaches the threshold, and
\* Pid 1 is one of them
AllFull ==
    /\ ready_queue # <<>>
    /\ 1 \in Elems(ready_queue)
    /\ timeslice >= minimum_remaining_timeslice
    /\ \A pid \in Elems(ready_queue) : ProcessOf(processes, pid).remaining = timeslice

C7_FallsAsleep ==
    (Running /\ Stopped("Sleep") /\ panicked' = "none")
    => LET p == Head(ready_queue)
       IN  /\ sleep_queue' = Append(sleep_queue, p)
           /\ p \notin Elems(ready_queue')
           /\ ProcessOf(processes', p).sleep_time = call'.arg

\* a sleeper keeps its delay, is never granted, and leaves the sleep queue
\* only through a next that finds the ready queue empty and returns its delay
C7_WhileAsleep ==
    \A p \in Elems(sleep_queue) :
        /\ p \in Elems(sleep_queue')
              => ProcessOf(processes', p).sleep_time = ProcessOf(processes, p).sleep_time
        /\ p \notin Elems(sleep_queue')
              => /\ Called_next
                 /\ ready_queue = <<>>
                 /\ ret' = Sleep(ProcessOf(processes, p).sleep_time)
                 /\ p \in Elems(ready_queue')
        /\ Called_next => ~(ret'.kind = "Run" /\ ret'.pid = p)

C9_DoneIffBothEmpty ==
    [][Called_next
       => (ret'.kind = "Done" <=> (ready_queue = <<>> /\ sleep_queue = <<>>))]_vars

\* every process created has exited and next has returned Done
C9_Witness ==
    /\ call.op = "next" /\ ret = Done
    /\ nr_processes >= 2
    /\ processes = <<>>

InitQueued == 1 \in Elems(ready_queue) \cup Elems(sleep_queue)

C13_Fork ==
    [][(Stopped("Fork") /\ panicked' = "none")
       => LET new_pid == nr_processes + 1
              new == processes'[Len(processes')]
          IN  /\ ret' = PidResult(new_pid)
              /\ nr_processes' = new_pid
              /\ \A i \in 1..Len(processes) : processes[i].pid < new_pid
              /\ Len(processes') = Len(processes) + 1
              /\ \A i \in 1..Len(processes) : processes'[i].pid = processes[i].pid
              /\ new.pid = new_pid
              /\ new.state = "Ready"
              /\ new.priority = call'.arg
              /\ new.timings = <<0, 0, 0>>
              /\ new.remaining = timeslice
              /\ ready_queue' = Append(ready_queue, new_pid)
              /\ sleep_queue' = sleep_queue
              /\ (call.op = "new" => new_pid = 1)]_vars

\* a running process has forked a third process after another one exited
C13_Witness ==
    /\ call.op = "stop" /\ call.reason = "Fork" /\ panicked = "none"
    /\ ret = PidResult(3)
    /\ Len(processes) = 2
    /\ ready_queue[Len(ready_queue)] = 3

\* the step is a stop answering a Run, reporting no more than the recorded
\* remaining of the running process
Answered(reason) ==
    /\ Stopped(reason)
    /\ ret.kind = "Run"
    /\ call'.remaining <= ProcessOf(processes, Head(ready_queue)).remaining

\* C14 as stated: a stop for Fork, Sleep, Wait or Signal adds the elapsed time
\* (recorded remaining minus reported remaining) to timings.2 of the running
\* process, adds 1 to its timings.1 and records the reported remaining
C14_SyscallAccounting ==
    [][\A s \in {"Fork", "Sleep", "Wait", "Signal"} :
          (Answered(s) /\ panicked' = "none")
          => LET pid == Head(ready_queue)
                 p == ProcessOf(processes, pid)
                 q == ProcessOf(processes', pid)
             IN  /\ q.timings[3] = p.timings[3] + (p.remaining - call'.remaining)
                 /\ q.timings[2] = p.timings[2] + 1
                 /\ q.remaining = call'.remaining]_vars

C16_WakeUpAsStated ==
    [][(Called_next /\ ready_queue # <<>>
          /\ ProcessOf(processes, Head(ready_queue)).sleep_time > 0)
       => LET pid == Head(ready_queue)
              p == ProcessOf(processes, pid)
              q == ProcessOf(processes', pid)
          IN  /\ q.remaining = timeslice
              /\ q.timings[1] = (p.timings[1] + p.sleep_time) % UsizeMod
              /\ q.sleep_time = 0
              /\ timeslice >= minimum_remaining_timeslice
                    => ret' = Run(pid, timeslice)]_vars

\* C16 amended: the same while Pid 1 is in one of the queues; with Pid 1 gone
\* next returns Panic and leaves the record as it was. A next changes the
\* timings, remaining and sleep_time of no other record, and of the head only
\* when its sleep_time is above 0, so a sleep is folded once
C16_WakeUp ==
    [][(Called_next /\ ready_queue # <<>>)
       => LET pid == Head(ready_queue)
              p == ProcessOf(processes, pid)
              q == ProcessOf(processes', pid)
              Same(a, b) == /\ a.timings = b.timings
                            /\ a.remaining = b.remaining
                            /\ a.sleep_time = b.sleep_time
          IN  /\ IF p.sleep_time > 0 /\ InitQueued
                 THEN /\ q.remaining = timeslice
                      /\ q.timings = <<(p.timings[1] + p.sleep_time) % UsizeMod,
                                        p.timings[2], p.timings[3]>>
                      /\ q.sleep_time = 0
                      /\ timeslice >= minimum_remaining_timeslice
                            => ret' = Run(pid, timeslice)
                 ELSE Same(p, q)
              /\ ~InitQueued => ret' = Panic
              /\ Len(processes') = Len(processes)
              /\ \A i \in 1..Len(processes) :
                    processes[i].pid # pid => Same(processes[i], processes'[i])]_vars

\* the only process ever created is granted again after a sleep: what its
\* timings.0 holds beyond its own running time is the folded delay
C16_Witness ==
    /\ call.op = "next" /\ ret.kind = "Run" /\ ret.amount = timeslice
    /\ nr_processes = 1 /\ Len(processes) = 1
    /\ overflow_checks
    /\ processes[1].sleep_time = 0
    /\ processes[1].timings[1] > processes[1].timings[2] + processes[1].timings[3]

C19_Termination == <>(ret = Done /\ nr_processes > 0)

\* C20 as stated: in stop(Fork) and stop(Sleep) reporting no more than the
\* recorded remaining no subtraction goes below zero: the call does not abort
\* on overflow, and timings.2 of the running process and timings.0 of every
\* other ready process change by the exact differences
C20_NoUnderflow ==
    [][\A s \in {"Fork", "Sleep"} :
          Answered(s)
          => /\ panicked' # "overflow"
             /\ panicked' = "none"
                   => LET pid == Head(ready_queue)
                          p == ProcessOf(processes, pid)
                      IN  /\ ProcessOf(processes', pid).timings[3]
                                = p.timings[3] + (p.remaining - call'.remaining) - 1
                          /\ \A o \in Elems(Tail(ready_queue)) :
                                ProcessOf(processes', o).timings[1]
                                    = ProcessOf(processes, o).timings[1]
                                      + (ProcessOf(processes, o).remaining
                                         - call'.remaining)]_vars
====
